---- MODULE Spec2Model ----
(***************************************************************************)
(* Client Query/Cache Controller of the Support Center application:        *)
(*   - RetentionDashboard (support_center/public/js/retention-dashboard.js)*)
(*     renewal calendar with its per-month cache and request tracker,      *)
(*     client list with filter tabs, pagination and backend search;        *)
(*   - SupportDashboard (page/support_center/support_center.js)            *)
(*     debounced customer search.                                          *)
(* The JavaScript is single threaded: every handler runs to its first      *)
(* await as one step, and the continuation after the await runs as one     *)
(* step when the response arrives.  Responses arrive in any order.         *)
(***************************************************************************)
EXTENDS Integers, Sequences, FiniteSets, TLC

VARIABLES
    \* ---- RetentionDashboard: calendar ----
    calendarYear,            \* this.calendarYear
    calendarMonth,           \* this.calendarMonth
    calendarCache,           \* this.calendarCache, entries in property order
    pendingCalendarRequest,  \* this.pendingCalendarRequest (tracker id, 0 = null)
    calInFlight,             \* get_calendar_view_data calls awaiting a response
    calView,                 \* #calendar-month-label and #calendar-grid
    calStale,                \* history: cache keys stored longer ago than a minutes-scale TTL
    calOp,                   \* history: what the last calendar step did
    \* ---- which page the browser has loaded ----
    page,                    \* "retention" (RetentionDashboard) or "support" (SupportDashboard)
    \* ---- RetentionDashboard: client list and search ----
    currentFilter,           \* this.currentFilter
    currentPage,             \* this.currentPage
    clients,                 \* this.clients, the rows held
    clientsTable,            \* #clients-table-body
    pagination,              \* #clients-pagination: its buttons and its display style
    \* ---- SupportDashboard: customer list ----
    showingCustomerList,     \* this.showingCustomerList
    customerListPage,        \* this.customerListPage
    customerListQuery,       \* this.customerListQuery
    customerListTotalPages,  \* this.customerListTotalPages
    isLoadingPage,           \* this.isLoadingPage
    currentCategory,         \* this.currentCategory
    customerTable,           \* #customer-table-body
    \* ---- the search box of the page loaded ----
    searchInput,             \* this.searchInput.value
    searchTimeout,           \* this.searchTimeout, the handle of the last timer set
    timers,                  \* setTimeout callbacks not yet run or cleared
    \* ---- the network ----
    inFlight,                \* apiCall promises awaiting a response
    nextReqId,               \* requests issued so far
    \* ---- history ----
    lastOp,                  \* the last step of the page: its name, query and toast
    lastTyped,               \* the value of the last input event
    firedSinceInput,         \* debounce callbacks run since the last input event
    \* ---- RetentionDashboard: the "Log Contact" dialog ----
    contactDialogs,          \* the #contact-dialog elements of the document, in tree order
    contactClosures,         \* the click listeners on the buttons of the first of them
    contactSubmitEnabled,    \* whether #contact-submit-btn of the first of them is enabled
    contactInFlight,         \* mark_customer_contacted calls awaiting a response
    contactOp,               \* history: the last step of the dialog and what it sent
    \* ---- SupportDashboard: the detail view of a customer ----
    currentCustomer,         \* this.currentCustomer (FALSE = null)
    currentOrders,           \* this.currentOrders, as positions in the server's list
    ordersSort,              \* this.ordersSortField and this.ordersSortDirection
    ordersLoaded,            \* this.ordersLoaded
    ordersHasMore,           \* this.ordersHasMore
    currentTimeline,         \* this.currentTimeline, as positions in the server's list
    timelineLoaded,          \* this.timelineLoaded
    timelineHasMore,         \* this.timelineHasMore
    isLoadingMore,           \* this.isLoadingMore
    loadMoreButtons,         \* the two "Load More" buttons of the document
    detailInFlight,          \* apiCall promises of the detail view awaiting a response
    detailServer,            \* the server: how many orders and events the customer has
    detailOp,                \* history: the last step of the detail view
    \* ---- functions applied to one input ----
    fnCall,                  \* the function called and its arguments
    fnResult                 \* what it returned or threw

calVars == <<calendarYear, calendarMonth, calendarCache, pendingCalendarRequest,
             calInFlight, calView, calStale, calOp>>

listVars == <<currentFilter, currentPage, clients, clientsTable, pagination>>

supportVars == <<showingCustomerList, customerListPage, customerListQuery,
                 customerListTotalPages, isLoadingPage, currentCategory, customerTable>>

inputVars == <<searchInput, searchTimeout, timers>>

netVars == <<inFlight, nextReqId>>

histVars == <<lastOp, lastTyped, firedSinceInput>>

pageVars == <<page, listVars, supportVars, inputVars, netVars, histVars>>

contactVars == <<contactDialogs, contactClosures, contactSubmitEnabled,
                 contactInFlight, contactOp>>

fnVars == <<fnCall, fnResult>>

detailVars == <<currentCustomer, currentOrders, ordersSort, ordersLoaded, ordersHasMore,
                currentTimeline, timelineLoaded, timelineHasMore, isLoadingMore,
                loadMoreButtons, detailInFlight, detailServer, detailOp>>

auxVars == <<contactVars, fnVars, detailVars>>

vars == <<calVars, pageVars, auxVars>>

-----------------------------------------------------------------------------
(* Bounds of the model *)

\* calendar requests that may be awaiting a response at the same time
MaxCalInFlight == 2
\* how many months past the current one the user navigates
CalSpan == 2

(* Environment: new Date() at construction and on the Today button *)
TodayYear == 2026
TodayMonth == 12

(* Program constants *)
\* if (cacheKeys.length > 6)
CalendarCacheLimit == 6
MonthsPerYear == 12

\* a span of months wide enough to overflow the cache
CacheSpan == CalendarCacheLimit + 1

-----------------------------------------------------------------------------
(* Calendar helpers *)

\* months since year 0, used only to bound the navigation
MonthIndex(y, m) == y * MonthsPerYear + (m - 1)

InWindow(y, m, span) ==
    /\ MonthIndex(y, m) >= MonthIndex(TodayYear, TodayMonth)
    /\ MonthIndex(y, m) <= MonthIndex(TodayYear, TodayMonth) + span

\* const cacheKey = `${this.calendarYear}-${this.calendarMonth}`
CacheKey(y, m) == <<y, "-", m>>

\* the response of get_calendar_view_data(year, month)
CalendarData(y, m) == [year |-> y, month |-> m]

NoMonth == [year |-> 0, month |-> 0]

CacheKeys(cache) == {cache[i].key : i \in DOMAIN cache}

CacheHas(cache, key) == key \in CacheKeys(cache)

CacheGet(cache, key) ==
    LET i == CHOOSE j \in DOMAIN cache : cache[j].key = key IN cache[i].data

\* this.calendarCache[cacheKey] = calendarData: a new property goes last in
\* Object.keys order, an existing property keeps its place
CacheSet(cache, key, data) ==
    IF CacheHas(cache, key)
    THEN [i \in DOMAIN cache |->
            IF cache[i].key = key THEN [key |-> key, data |-> data] ELSE cache[i]]
    ELSE Append(cache, [key |-> key, data |-> data])

\* a bug that would delete the newest key instead of the oldest
CacheEvictNewest(cache) ==
    IF Len(cache) > CalendarCacheLimit THEN SubSeq(cache, 1, Len(cache) - 1) ELSE cache

\* if (cacheKeys.length > 6) delete this.calendarCache[cacheKeys[0]]
CacheEvict(cache) ==
    IF Len(cache) > CalendarCacheLimit THEN Tail(cache) ELSE cache

\* renderCalendar(data): label and grid show the month of the data
RenderCalendar(data) ==
    [label |-> "month", labelMonth |-> data,
     grid  |-> "month", gridMonth  |-> data]

FreeCalIds == (1..MaxCalInFlight) \ {r.id : r \in calInFlight}

\* the tracker of pendingCalendarRequest gets cancelled = true; a new tracker
\* is created for the call to get_calendar_view_data(year, month)
IssueCalendarRequest(y, m) ==
    /\ FreeCalIds # {}
    /\ LET id == CHOOSE i \in FreeCalIds : \A j \in FreeCalIds : i <= j IN
       /\ calInFlight' =
            {IF r.id = pendingCalendarRequest
                THEN [r EXCEPT !.cancelled = TRUE] ELSE r : r \in calInFlight}
            \cup {[id |-> id, year |-> y, month |-> m, key |-> CacheKey(y, m),
                   cancelled |-> FALSE]}
       /\ pendingCalendarRequest' = id
    /\ calView' = [calView EXCEPT !.label = "loading", !.labelMonth = NoMonth]
    /\ UNCHANGED <<calendarCache, calStale>>

-----------------------------------------------------------------------------
(* loadCalendarData up to its await, for the month (y, m) just selected *)

\* a bug that would skip the cache check
LoadCalendarDataNoCache(y, m) ==
    /\ IssueCalendarRequest(y, m)
    /\ calOp' = "miss"

\* a cache with a time-to-live: an entry past it counts as absent
LoadCalendarDataTtl(y, m) ==
    IF CacheHas(calendarCache, CacheKey(y, m)) /\ CacheKey(y, m) \notin calStale
    THEN /\ calView' = RenderCalendar(CacheGet(calendarCache, CacheKey(y, m)))
         /\ calOp' = "hit"
         /\ UNCHANGED <<calendarCache, pendingCalendarRequest, calInFlight, calStale>>
    ELSE /\ IssueCalendarRequest(y, m)
         /\ calOp' = "miss"

LoadCalendarData(y, m) ==
    IF CacheHas(calendarCache, CacheKey(y, m))
    THEN \* cache hit: render and return, the pending request is left alone
         /\ calView' = RenderCalendar(CacheGet(calendarCache, CacheKey(y, m)))
         /\ calOp' = IF CacheKey(y, m) \in calStale THEN "staleHit" ELSE "hit"
         /\ UNCHANGED <<calendarCache, pendingCalendarRequest, calInFlight, calStale>>
    ELSE /\ IssueCalendarRequest(y, m)
         /\ calOp' = "miss"

(* #prev-month click *)
PrevMonthIn(span) ==
    LET m == IF calendarMonth - 1 < 1 THEN MonthsPerYear ELSE calendarMonth - 1
        y == IF calendarMonth - 1 < 1 THEN calendarYear - 1 ELSE calendarYear
    IN /\ InWindow(y, m, span)
       /\ calendarMonth' = m
       /\ calendarYear' = y
       /\ LoadCalendarData(y, m)

(* #next-month click *)
NextMonthIn(span) ==
    LET m == IF calendarMonth + 1 > MonthsPerYear THEN 1 ELSE calendarMonth + 1
        y == IF calendarMonth + 1 > MonthsPerYear THEN calendarYear + 1 ELSE calendarYear
    IN /\ InWindow(y, m, span)
       /\ calendarMonth' = m
       /\ calendarYear' = y
       /\ LoadCalendarData(y, m)

PrevMonth == PrevMonthIn(CalSpan)

NextMonth == NextMonthIn(CalSpan)

(* #today-btn click *)
TodayClick ==
    /\ calendarYear' = TodayYear
    /\ calendarMonth' = TodayMonth
    /\ LoadCalendarData(TodayYear, TodayMonth)

(* switchTab('calendar'), #expand-calendar-btn, quick action card *)
OpenCalendar ==
    /\ UNCHANGED <<calendarYear, calendarMonth>>
    /\ LoadCalendarData(calendarYear, calendarMonth)

-----------------------------------------------------------------------------
(* loadCalendarData after its await: the response of request r arrives *)

\* a bug that would work out the cache key after the await, from the month
\* selected by then
CalendarResponseEffectKeyAfterAwait(r, ok) ==
    IF ok
    THEN LET cacheKey == CacheKey(calendarYear, calendarMonth)
             stored == CacheSet(calendarCache, cacheKey, CalendarData(r.year, r.month))
         IN /\ calendarCache' = CacheEvict(stored)
            /\ calStale' = (calStale \cap CacheKeys(calendarCache')) \ {cacheKey}
            /\ calView' = RenderCalendar(CalendarData(r.year, r.month))
            /\ calOp' = IF Len(stored) > CalendarCacheLimit THEN "evict" ELSE "store"
    ELSE /\ calView' =
              [label |-> "month",
               labelMonth |-> [year |-> calendarYear, month |-> calendarMonth],
               grid |-> "error", gridMonth |-> NoMonth]
         /\ calOp' = "error"
         /\ UNCHANGED <<calendarCache, calStale>>

\* what the continuation does when the tracker is not cancelled
CalendarResponseEffect(r, ok) ==
    IF ok
    THEN LET stored == CacheSet(calendarCache, r.key, CalendarData(r.year, r.month))
         IN /\ calendarCache' = CacheEvict(stored)
            /\ calStale' = (calStale \cap CacheKeys(calendarCache')) \ {r.key}
            /\ calView' = RenderCalendar(CalendarData(r.year, r.month))
            /\ calOp' = IF Len(stored) > CalendarCacheLimit THEN "evict" ELSE "store"
    ELSE \* catch: label of the month selected now, error in the grid
         /\ calView' =
              [label |-> "month",
               labelMonth |-> [year |-> calendarYear, month |-> calendarMonth],
               grid |-> "error", gridMonth |-> NoMonth]
         /\ calOp' = "error"
         /\ UNCHANGED <<calendarCache, calStale>>

\* a bug that would leave out the checks of requestTracker.cancelled
CalendarResponseNoCancel(r, ok) ==
    /\ calInFlight' = calInFlight \ {r}
    /\ pendingCalendarRequest' =
          IF pendingCalendarRequest = r.id THEN 0 ELSE pendingCalendarRequest
    /\ CalendarResponseEffect(r, ok)
    /\ UNCHANGED <<calendarYear, calendarMonth>>

CalendarResponse(r, ok) ==
    /\ calInFlight' = calInFlight \ {r}
    \* finally: if (this.pendingCalendarRequest === requestTracker)
    /\ pendingCalendarRequest' =
          IF pendingCalendarRequest = r.id THEN 0 ELSE pendingCalendarRequest
    /\ IF r.cancelled
       THEN \* if (requestTracker.cancelled) return, on both paths
            /\ calOp' = "discard"
            /\ UNCHANGED <<calendarCache, calStale, calView>>
       ELSE CalendarResponseEffect(r, ok)
    /\ UNCHANGED <<calendarYear, calendarMonth>>

CalendarSuccess == \E r \in calInFlight : CalendarResponse(r, TRUE)

CalendarFailure == \E r \in calInFlight : CalendarResponse(r, FALSE)

(* Minutes pass: every entry now in the cache is older than a minutes-scale TTL *)
MinutesPass ==
    /\ calStale # CacheKeys(calendarCache)
    /\ calStale' = CacheKeys(calendarCache)
    /\ calOp' = "time"
    /\ UNCHANGED <<calendarYear, calendarMonth, calendarCache, pendingCalendarRequest,
                   calInFlight, calView>>

(* The same clicks by a user who waits for each response, over CacheSpan months *)
WaitPrevMonth == calInFlight = {} /\ PrevMonthIn(CacheSpan)

WaitNextMonth == calInFlight = {} /\ NextMonthIn(CacheSpan)

WaitTodayClick == calInFlight = {} /\ TodayClick

-----------------------------------------------------------------------------
CalInit ==
    /\ calendarYear = TodayYear
    /\ calendarMonth = TodayMonth
    /\ calendarCache = <<>>
    /\ pendingCalendarRequest = 0
    /\ calInFlight = {}
    /\ calView = [label |-> "none", labelMonth |-> NoMonth,
                  grid |-> "none", gridMonth |-> NoMonth]
    /\ calStale = {}
    /\ calOp = "init"

CalNext ==
    \/ PrevMonth
    \/ NextMonth
    \/ TodayClick
    \/ OpenCalendar
    \/ CalendarSuccess
    \/ CalendarFailure
    \/ MinutesPass

CalWaitNext ==
    \/ WaitPrevMonth
    \/ WaitNextMonth
    \/ WaitTodayClick
    \/ CalendarSuccess

-----------------------------------------------------------------------------
(* Client list and search of the retention dashboard *)

(* Bounds of the model *)
\* requests a page issues after the one of its constructor
MaxRequests == 2
\* timers that may be pending at the same time
MaxTimers == 2
\* granularity of the clock, in ms
TickMs == 200

(* Program constants *)
pageSize == 50
MinQueryLength == 2
SearchDebounceMs == 400

\* data-filter of the filter tabs
Filters == {"", "overdue"}

\* what the user may type into the search box, as sequences of characters
InputValues ==
    {<<>>, <<" ", "a", " ">>, <<"a", "b">>, <<"f", "o", "o">>, <<"b", "a", "r">>}

Min(a, b) == IF a < b THEN a ELSE b

Max(a, b) == IF a > b THEN a ELSE b

\* String.prototype.trim
RECURSIVE TrimLeft(_)
TrimLeft(str) ==
    IF str # <<>> /\ Head(str) = " " THEN TrimLeft(Tail(str)) ELSE str

RECURSIVE TrimRight(_)
TrimRight(str) ==
    IF str # <<>> /\ str[Len(str)] = " "
    THEN TrimRight(SubSeq(str, 1, Len(str) - 1)) ELSE str

Trim(str) == TrimRight(TrimLeft(str))

\* the server: how many clients have the status of a filter tab
ServerClients(filter) == IF filter = "" THEN 2 * pageSize + 30 ELSE pageSize

\* the server: how many customers match a search query
ServerMatches(query) ==
    IF query = <<"f", "o", "o">> THEN 3
    ELSE IF query = <<"b", "a", "r">> THEN 1 ELSE 0

\* this.clients = []
NoRows == [filter |-> "", offset |-> 0, n |-> 0]

\* get_clients_by_renewal_status(status_filter, limit = pageSize, offset)
ClientRows(r) ==
    [filter |-> r.filter, offset |-> r.offset,
     n |-> Min(pageSize, Max(0, ServerClients(r.filter) - r.offset))]

\* the table body: what it shows, and the request whose response it shows
TableShowing(kind, id, rows, query) ==
    [kind |-> kind, id |-> id, rows |-> rows, query |-> query]

\* renderClients(clients) with the rows of a list response
RenderClients(id, rows) ==
    TableShowing(IF rows.n = 0 THEN "empty" ELSE "rows", id, rows, <<>>)

\* renderPagination(): the buttons follow this.clients and this.currentPage
RenderPagination(rows, pageNow) ==
    [hasPrev |-> pageNow > 1, hasNext |-> rows.n >= pageSize,
     visible |-> pagination.visible]

\* apiCall(method, args) up to its await
IssueRequest(kind, filter, offset, query) ==
    /\ nextReqId <= MaxRequests + 1
    /\ inFlight' = inFlight \cup
          {[id |-> nextReqId, kind |-> kind, filter |-> filter, offset |-> offset,
            query |-> query]}
    /\ nextReqId' = nextReqId + 1

\* clearTimeout(handle)
ClearTimeout(ts, handle) == {t \in ts : t.id # handle}

FreeTimerIds(ts) == (1..MaxTimers) \ {t.id : t \in ts}

NewTimerId(ts) == CHOOSE i \in FreeTimerIds(ts) : \A j \in FreeTimerIds(ts) : i <= j

\* setTimeout(callback, delay): a new timer that carries the value of its closure
SetTimeout(ts, value) == ts \cup {[id |-> NewTimerId(ts), value |-> value, age |-> 0]}

\* a step of the page: its name, the query it searched for, and its showToast
History(name, query, toast) == [name |-> name, query |-> query, toast |-> toast]

\* what a step of the retention dashboard leaves alone
RetentionFrame ==
    UNCHANGED <<calVars, page, supportVars, auxVars>>

\* a bug that would compute the offset from the page number itself
LoadClientsOffByOne(filter, pg) ==
    /\ currentPage' = pg
    /\ clientsTable' = TableShowing("loading", 0, NoRows, <<>>)
    /\ IssueRequest("list", filter, pg * pageSize, <<>>)

\* loadClients(resetPage) up to its await, with the filter and page in effect
LoadClients(filter, pg) ==
    /\ currentPage' = pg
    /\ clientsTable' = TableShowing("loading", 0, NoRows, <<>>)
    /\ IssueRequest("list", filter, (pg - 1) * pageSize, <<>>)

\* clearSearch(): empties the box, shows the pagination again, loadClients(true)
ClearSearch ==
    /\ searchInput' = <<>>
    /\ pagination' = [pagination EXCEPT !.visible = TRUE]
    /\ LoadClients(currentFilter, 1)

\* a bug that would leave out the length check
PerformBackendSearchUnchecked(name, query) ==
    /\ clientsTable' = TableShowing("searchLoading", 0, NoRows, query)
    /\ IssueRequest("search", "", 0, query)
    /\ lastOp' = History(name, query, "none")

\* performBackendSearch(query) up to its await
PerformBackendSearch(name, query) ==
    IF Len(query) < MinQueryLength
    THEN /\ lastOp' = History(name, query, "tooShort")
         /\ UNCHANGED <<clientsTable, inFlight, nextReqId>>
    ELSE /\ clientsTable' = TableShowing("searchLoading", 0, NoRows, query)
         /\ IssueRequest("search", "", 0, query)
         /\ lastOp' = History(name, query, "none")

(* .filter-tab click *)
FilterTabClick ==
    \E f \in Filters :
       /\ page = "retention"
       /\ currentFilter' = f
       /\ LoadClients(f, currentPage)
       /\ lastOp' = History("filter", <<>>, "none")
       /\ UNCHANGED <<clients, pagination, inputVars, lastTyped, firedSinceInput>>
       /\ RetentionFrame

(* #next-page-btn click: loadNextPage() *)
NextPageClick ==
    /\ page = "retention"
    /\ pagination.visible /\ pagination.hasNext
    /\ LoadClients(currentFilter, currentPage + 1)
    /\ lastOp' = History("next", <<>>, "none")
    /\ UNCHANGED <<currentFilter, clients, pagination, inputVars, lastTyped,
                   firedSinceInput>>
    /\ RetentionFrame

(* #prev-page-btn click: loadPreviousPage() *)
PrevPageClick ==
    /\ page = "retention"
    /\ pagination.visible /\ pagination.hasPrev
    /\ IF currentPage > 1
       THEN LoadClients(currentFilter, currentPage - 1)
       ELSE UNCHANGED <<currentPage, clientsTable, inFlight, nextReqId>>
    /\ lastOp' = History("prev", <<>>, "none")
    /\ UNCHANGED <<currentFilter, clients, pagination, inputVars, lastTyped,
                   firedSinceInput>>
    /\ RetentionFrame

\* a bug that would leave the previous timer running
SearchInputEventNoClear(raw) ==
    /\ page = "retention"
    /\ raw # searchInput \/ raw = <<>>
    /\ lastTyped' = raw
    /\ firedSinceInput' = 0
    /\ lastOp' = History("input", <<>>, "none")
    /\ IF Trim(raw) = <<>>
       THEN /\ ClearSearch
            /\ UNCHANGED <<searchTimeout, timers>>
       ELSE /\ FreeTimerIds(timers) # {}
            /\ searchInput' = raw
            /\ searchTimeout' = NewTimerId(timers)
            /\ timers' = SetTimeout(timers, Trim(raw))
            /\ UNCHANGED <<currentPage, clientsTable, pagination, inFlight, nextReqId>>
    /\ UNCHANGED <<currentFilter, clients>>
    /\ RetentionFrame

(* input event of #client-search with the value raw; an event with the empty *)
(* value stands for every value that trims to nothing                        *)
SearchInputEvent(raw) ==
    /\ page = "retention"
    /\ raw # searchInput \/ raw = <<>>
    /\ lastTyped' = raw
    /\ firedSinceInput' = 0
    /\ lastOp' = History("input", <<>>, "none")
    /\ LET cleared == ClearTimeout(timers, searchTimeout) IN
       IF Trim(raw) = <<>>
       THEN \* if (!value) { this.clearSearch(); return; }
            /\ ClearSearch
            /\ timers' = cleared
            /\ UNCHANGED searchTimeout
       ELSE \* this.searchTimeout = setTimeout(() => performBackendSearch(value), 400)
            /\ FreeTimerIds(cleared) # {}
            /\ searchInput' = raw
            /\ searchTimeout' = NewTimerId(cleared)
            /\ timers' = SetTimeout(cleared, Trim(raw))
            /\ UNCHANGED <<currentPage, clientsTable, pagination, inFlight, nextReqId>>
    /\ UNCHANGED <<currentFilter, clients>>
    /\ RetentionFrame

SearchInput == \E raw \in InputValues : SearchInputEvent(raw)

(* the debounce timer t runs its callback: performBackendSearch(value) *)
SearchDebounceFires ==
    \E t \in timers :
       /\ page = "retention"
       /\ t.age >= SearchDebounceMs
       /\ timers' = timers \ {t}
       /\ PerformBackendSearch("debounce", t.value)
       /\ firedSinceInput' = Min(firedSinceInput + 1, 2)
       /\ UNCHANGED <<currentFilter, currentPage, clients, pagination, searchInput,
                      searchTimeout, lastTyped>>
       /\ RetentionFrame

(* keydown Enter in #client-search *)
SearchEnterKey ==
    /\ page = "retention"
    /\ timers' = ClearTimeout(timers, searchTimeout)
    /\ IF Trim(searchInput) # <<>>
       THEN PerformBackendSearch("enter", Trim(searchInput))
       ELSE /\ lastOp' = History("enter", <<>>, "none")
            /\ UNCHANGED <<clientsTable, inFlight, nextReqId>>
    /\ UNCHANGED <<currentFilter, currentPage, clients, pagination, searchInput,
                   searchTimeout, lastTyped, firedSinceInput>>
    /\ RetentionFrame

(* #search-clear-btn click; the button shows while the box holds a value *)
SearchClearClick ==
    /\ page = "retention"
    /\ Trim(searchInput) # <<>>
    /\ ClearSearch
    /\ lastOp' = History("clear", <<>>, "none")
    /\ UNCHANGED <<currentFilter, clients, searchTimeout, timers, lastTyped,
                   firedSinceInput>>
    /\ RetentionFrame

(* loadDashboard after its await: the four calls of the constructor are answered *)
DashboardResponse(r, ok) ==
    /\ page = "retention"
    /\ r.kind = "dashboard"
    /\ inFlight' = inFlight \ {r}
    /\ IF ok
       THEN /\ clients' = ClientRows(r)
            /\ clientsTable' = RenderClients(r.id, ClientRows(r))
            /\ pagination' = RenderPagination(ClientRows(r), currentPage)
            /\ lastOp' = History("dashboardLoaded", <<>>, "none")
       ELSE \* catch: showError()
            /\ lastOp' = History("dashboardFailed", <<>>, "dashboardFailed")
            /\ UNCHANGED <<clients, clientsTable, pagination>>
    /\ UNCHANGED <<currentFilter, currentPage, inputVars, nextReqId, lastTyped,
                   firedSinceInput>>
    /\ RetentionFrame

\* a bug that would send a failed list request again
ClientsResponseRetry(r, ok) ==
    /\ page = "retention"
    /\ r.kind = "list"
    /\ IF ok
       THEN /\ clients' = ClientRows(r)
            /\ clientsTable' = RenderClients(r.id, ClientRows(r))
            /\ pagination' = RenderPagination(ClientRows(r), currentPage)
            /\ lastOp' = History("listLoaded", <<>>, "none")
            /\ inFlight' = inFlight \ {r}
            /\ UNCHANGED nextReqId
       ELSE /\ clientsTable' = TableShowing("error", r.id, NoRows, <<>>)
            /\ lastOp' = History("listFailed", <<>>, "none")
            /\ nextReqId <= MaxRequests + 1
            /\ inFlight' = (inFlight \ {r}) \cup {[r EXCEPT !.id = nextReqId]}
            /\ nextReqId' = nextReqId + 1
            /\ UNCHANGED <<clients, pagination>>
    /\ UNCHANGED <<currentFilter, currentPage, inputVars, lastTyped, firedSinceInput>>
    /\ RetentionFrame

\* a bug that would leave the loading row in place when the request fails
ClientsResponseKeepsLoading(r, ok) ==
    /\ page = "retention"
    /\ r.kind = "list"
    /\ inFlight' = inFlight \ {r}
    /\ IF ok
       THEN /\ clients' = ClientRows(r)
            /\ clientsTable' = RenderClients(r.id, ClientRows(r))
            /\ pagination' = RenderPagination(ClientRows(r), currentPage)
            /\ lastOp' = History("listLoaded", <<>>, "none")
       ELSE /\ lastOp' = History("listFailed", <<>>, "none")
            /\ UNCHANGED <<clients, clientsTable, pagination>>
    /\ UNCHANGED <<currentFilter, currentPage, inputVars, nextReqId, lastTyped,
                   firedSinceInput>>
    /\ RetentionFrame

(* loadClients after its await *)
ClientsResponse(r, ok) ==
    /\ page = "retention"
    /\ r.kind = "list"
    /\ inFlight' = inFlight \ {r}
    /\ IF ok
       THEN /\ clients' = ClientRows(r)
            /\ clientsTable' = RenderClients(r.id, ClientRows(r))
            /\ pagination' = RenderPagination(ClientRows(r), currentPage)
            /\ lastOp' = History("listLoaded", <<>>, "none")
       ELSE \* catch: showClientsError()
            /\ clientsTable' = TableShowing("error", r.id, NoRows, <<>>)
            /\ lastOp' = History("listFailed", <<>>, "none")
            /\ UNCHANGED <<clients, pagination>>
    /\ UNCHANGED <<currentFilter, currentPage, inputVars, nextReqId, lastTyped,
                   firedSinceInput>>
    /\ RetentionFrame

(* performBackendSearch after its await; not ok is an apiCall that threw or a *)
(* response without its customers field                                       *)
SearchResponse(r, ok) ==
    /\ page = "retention"
    /\ r.kind = "search"
    /\ IF ok /\ ServerMatches(r.query) > 0
       THEN \* renderClients(customers); the pagination is hidden
            /\ clientsTable' =
                  TableShowing("searchRows", r.id,
                               [NoRows EXCEPT !.n = ServerMatches(r.query)], r.query)
            /\ pagination' = [pagination EXCEPT !.visible = FALSE]
            /\ inFlight' = inFlight \ {r}
            /\ lastOp' = History("searchLoaded", r.query, "none")
            /\ UNCHANGED <<currentPage, searchInput, nextReqId>>
       ELSE IF ok
       THEN \* showSearchEmpty(query)
            /\ clientsTable' = TableShowing("searchEmpty", r.id, NoRows, r.query)
            /\ inFlight' = inFlight \ {r}
            /\ lastOp' = History("searchLoaded", r.query, "none")
            /\ UNCHANGED <<currentPage, pagination, searchInput, nextReqId>>
       ELSE \* catch: showToast('Search failed...'), then clearSearch()
            /\ lastOp' = History("searchFailed", r.query, "searchFailed")
            /\ searchInput' = <<>>
            /\ pagination' = [pagination EXCEPT !.visible = TRUE]
            /\ currentPage' = 1
            /\ clientsTable' = TableShowing("loading", 0, NoRows, <<>>)
            /\ nextReqId <= MaxRequests + 1
            /\ inFlight' = (inFlight \ {r}) \cup
                  {[id |-> nextReqId, kind |-> "list", filter |-> currentFilter,
                    offset |-> 0, query |-> <<>>]}
            /\ nextReqId' = nextReqId + 1
    /\ UNCHANGED <<currentFilter, clients, searchTimeout, timers, lastTyped,
                   firedSinceInput>>
    /\ RetentionFrame

DashboardLoaded == \E r \in inFlight : DashboardResponse(r, TRUE)

DashboardFailed == \E r \in inFlight : DashboardResponse(r, FALSE)

ClientsLoaded == \E r \in inFlight : ClientsResponse(r, TRUE)

ClientsFailed == \E r \in inFlight : ClientsResponse(r, FALSE)

SearchLoaded == \E r \in inFlight : SearchResponse(r, TRUE)

SearchFailed == \E r \in inFlight : SearchResponse(r, FALSE)

-----------------------------------------------------------------------------
(* Customer list and search of the support center *)

(* Program constants *)
customerListPageSize == 20
ScSearchDebounceMs == 300

\* window.location.search: the q parameter the page may be opened with
UrlQueries == {<<>>, <<"a">>}

\* the server: total_count of search_customers_paginated for a query
ServerCustomers(query) ==
    IF query = <<>> THEN 2 * customerListPageSize + 5
    ELSE IF query = <<"f", "o", "o">> THEN 3 ELSE 0

\* the category tabs used
Categories == {"all", "customer"}

\* the server: total_count of search_customers_paginated for a category and
\* a query
ServerCustomersIn(category, query) ==
    IF category = "all" THEN ServerCustomers(query)
    ELSE IF query = <<>> THEN customerListPageSize + 5
    ELSE IF query = <<"f", "o", "o">> THEN 1 ELSE 0

\* Math.ceil(total_count / customerListPageSize)
TotalPages(total) == (total + customerListPageSize - 1) \div customerListPageSize

CustomerTableShowing(kind, id, query, offset, n) ==
    [kind |-> kind, id |-> id, query |-> query, offset |-> offset, n |-> n]

\* what a step of the support center leaves alone
SupportFrame ==
    UNCHANGED <<calVars, page, listVars, auxVars>>

\* loadCustomerList() and filterCustomerList(query) up to their await, with
\* the category in effect when they build the parameters
RequestCustomerListIn(category, pg, query) ==
    /\ showingCustomerList' = TRUE
    /\ customerListPage' = pg
    /\ customerListQuery' = query
    /\ currentCategory' = category
    /\ customerTable' = CustomerTableShowing("skeleton", 0, <<>>, 0, 0)
    /\ isLoadingPage' = TRUE
    /\ IssueRequest("customers", category, (pg - 1) * customerListPageSize, query)

RequestCustomerList(pg, query) == RequestCustomerListIn(currentCategory, pg, query)

\* loadCustomerList() with the page pg and the query in effect: an active
\* query delegates to filterCustomerList with the same query
LoadCustomerList(pg, query) == RequestCustomerList(pg, query)

\* filterCustomerList(query): back to page 1 if the query changed
FilterCustomerList(pg, query) ==
    RequestCustomerList(IF customerListQuery # query THEN 1 ELSE pg, query)

\* the callback of the 300 ms timer
ScDebounceCallback(t) ==
    IF showingCustomerList
    THEN /\ FilterCustomerList(1, t.value)
         /\ UNCHANGED customerListTotalPages
    ELSE UNCHANGED <<supportVars, netVars>>

(* input event of #customer-search with the value raw *)
ScSearchInputEvent(raw) ==
    /\ page = "support"
    /\ raw # searchInput \/ raw = <<>>
    /\ searchInput' = raw
    /\ lastTyped' = raw
    /\ firedSinceInput' = 0
    /\ lastOp' = History("input", <<>>, "none")
    /\ LET cleared == ClearTimeout(timers, searchTimeout) IN
       IF Len(Trim(raw)) = 0
       THEN \* clear the search and reload the full list
            /\ timers' = cleared
            /\ IF showingCustomerList
               THEN /\ LoadCustomerList(1, <<>>)
                    /\ UNCHANGED customerListTotalPages
               ELSE UNCHANGED <<supportVars, netVars>>
            /\ UNCHANGED searchTimeout
       ELSE IF Len(Trim(raw)) < MinQueryLength
       THEN /\ timers' = cleared
            /\ UNCHANGED <<searchTimeout, supportVars, netVars>>
       ELSE /\ FreeTimerIds(cleared) # {}
            /\ searchTimeout' = NewTimerId(cleared)
            /\ timers' = SetTimeout(cleared, Trim(raw))
            /\ UNCHANGED <<supportVars, netVars>>
    /\ SupportFrame

ScSearchInput == \E raw \in InputValues : ScSearchInputEvent(raw)

(* the debounce timer t runs its callback *)
ScSearchDebounceFires ==
    \E t \in timers :
       /\ page = "support"
       /\ t.age >= ScSearchDebounceMs
       /\ timers' = timers \ {t}
       /\ ScDebounceCallback(t)
       /\ lastOp' = History("debounce", t.value, "none")
       /\ firedSinceInput' = Min(firedSinceInput + 1, 2)
       /\ UNCHANGED <<searchInput, searchTimeout, lastTyped>>
       /\ SupportFrame

(* a pagination button: goToPage(p) *)
GoToPage ==
    \E p \in 1..customerListTotalPages :
       /\ page = "support"
       /\ customerTable.kind = "rows"
       /\ p # customerListPage
       /\ ~isLoadingPage
       /\ IF customerListQuery # <<>>
          THEN FilterCustomerList(p, customerListQuery)
          ELSE LoadCustomerList(p, customerListQuery)
       /\ lastOp' = History("goToPage", <<>>, "none")
       /\ UNCHANGED <<customerListTotalPages, inputVars, lastTyped, firedSinceInput>>
       /\ SupportFrame

(* the Clear search button of the empty state *)
EmptyStateClearSearch ==
    /\ page = "support"
    /\ customerTable.kind = "empty" /\ customerTable.query # <<>>
    /\ searchInput' = <<>>
    /\ LoadCustomerList(1, <<>>)
    /\ lastOp' = History("clear", <<>>, "none")
    /\ UNCHANGED <<customerListTotalPages, searchTimeout, timers, lastTyped,
                   firedSinceInput>>
    /\ SupportFrame

(* a category tab, or "Show all records" of the empty state:             *)
(* setCategory(category)                                                   *)
SetCategory(category) ==
    /\ page = "support"
    /\ currentCategory # category
    /\ RequestCustomerListIn(category, 1, customerListQuery)
    /\ lastOp' = History("category", <<>>, "none")
    /\ UNCHANGED <<customerListTotalPages, inputVars, lastTyped, firedSinceInput>>
    /\ SupportFrame

CategoryTabClick == \E category \in Categories : SetCategory(category)

(* loadCustomerList / filterCustomerList after their await *)
CustomersResponse(r, ok) ==
    /\ page = "support"
    /\ r.kind = "customers"
    /\ inFlight' = inFlight \ {r}
    /\ isLoadingPage' = FALSE
    /\ LET total == ServerCustomersIn(r.filter, r.query)
           n == Min(customerListPageSize, Max(0, total - r.offset))
       IN IF ok
          THEN /\ customerListTotalPages' = TotalPages(total)
               /\ customerTable' =
                     CustomerTableShowing(IF n = 0 THEN "empty" ELSE "rows",
                                          r.id,
                                          IF n = 0 THEN customerListQuery ELSE r.query,
                                          r.offset, n)
               /\ lastOp' = History("customersLoaded", <<>>, "none")
          ELSE /\ customerTable' = CustomerTableShowing("error", r.id, <<>>, 0, 0)
               /\ lastOp' = History("customersFailed", <<>>, "none")
               /\ UNCHANGED customerListTotalPages
    /\ UNCHANGED <<showingCustomerList, customerListPage, customerListQuery,
                   currentCategory, inputVars, nextReqId, lastTyped, firedSinceInput>>
    /\ SupportFrame

CustomersLoaded == \E r \in inFlight : CustomersResponse(r, TRUE)

CustomersFailed == \E r \in inFlight : CustomersResponse(r, FALSE)

(* time passes *)
Tick ==
    /\ timers' = {[t EXCEPT !.age = Min(t.age + TickMs, SearchDebounceMs)] : t \in timers}
    /\ timers' # timers
    /\ lastOp' = History("tick", <<>>, "none")
    /\ UNCHANGED <<calVars, page, listVars, supportVars, searchInput, searchTimeout,
                   netVars, lastTyped, firedSinceInput, auxVars>>

-----------------------------------------------------------------------------
(* Initial state: the page is loaded and its constructor has run *)

\* the search box, the timers and the history of a page just constructed
FreshInput(value) ==
    /\ searchInput = value
    /\ searchTimeout = 0
    /\ timers = {}
    /\ lastOp = History("init", <<>>, "none")
    /\ lastTyped = value
    /\ firedSinceInput = 0

\* RetentionDashboard not constructed (the support center is loaded)
NoRetention ==
    /\ currentFilter = ""
    /\ currentPage = 1
    /\ clients = NoRows
    /\ clientsTable = TableShowing("none", 0, NoRows, <<>>)
    /\ pagination = [hasPrev |-> FALSE, hasNext |-> FALSE, visible |-> TRUE]

\* SupportDashboard not constructed (the retention dashboard is loaded)
NoSupport ==
    /\ showingCustomerList = FALSE
    /\ customerListPage = 1
    /\ customerListQuery = <<>>
    /\ customerListTotalPages = 0
    /\ isLoadingPage = FALSE
    /\ currentCategory = "all"
    /\ customerTable = CustomerTableShowing("none", 0, <<>>, 0, 0)

\* new RetentionDashboard(): the fields of the constructor, then loadDashboard()
RetentionInit ==
    /\ page = "retention"
    /\ NoRetention
    /\ NoSupport
    /\ FreshInput(<<>>)
    /\ inFlight = {[id |-> 1, kind |-> "dashboard", filter |-> "", offset |-> 0,
                    query |-> <<>>]}
    /\ nextReqId = 2

\* new SupportDashboard(): the fields of the constructor, initializeFromURL(),
\* then loadRecordDetail() in the detail view and loadCustomerList() otherwise
SupportInit ==
    /\ page = "support"
    /\ NoRetention
    /\ customerListPage = 1
    /\ customerListTotalPages = 0
    /\ currentCategory = "all"
    /\ nextReqId = 2
    /\ \/ \E q \in UrlQueries :
            /\ FreshInput(q)
            /\ showingCustomerList = TRUE
            /\ customerListQuery = q
            /\ isLoadingPage = TRUE
            /\ customerTable = CustomerTableShowing("skeleton", 0, <<>>, 0, 0)
            /\ inFlight = {[id |-> 1, kind |-> "customers", filter |-> "all",
                            offset |-> 0, query |-> q]}
       \/ /\ FreshInput(<<>>)
          /\ showingCustomerList = FALSE
          /\ customerListQuery = <<>>
          /\ isLoadingPage = FALSE
          /\ customerTable = CustomerTableShowing("none", 0, <<>>, 0, 0)
          /\ inFlight = {}

PageInit == RetentionInit \/ SupportInit

\* no "Log Contact" dialog has been opened
ContactIdle ==
    /\ contactDialogs = <<>>
    /\ contactClosures = <<>>
    /\ contactSubmitEnabled = FALSE
    /\ contactInFlight = 0
    /\ contactOp = [name |-> "init", sent |-> <<>>]

\* no function is being applied
FnIdle ==
    /\ fnCall = [name |-> "none"]
    /\ fnResult = [done |-> FALSE]

\* a "Load More" button: in the document or not, disabled or not, with a
\* click listener or not
NoButton == [present |-> FALSE, disabled |-> FALSE, listener |-> FALSE]

\* the fields of the detail view as the constructor sets them
DetailFields ==
    /\ currentCustomer = FALSE
    /\ currentOrders = <<>>
    /\ ordersSort = [field |-> "transaction_date", direction |-> "desc"]
    /\ ordersLoaded = 0
    /\ ordersHasMore = FALSE
    /\ currentTimeline = <<>>
    /\ timelineLoaded = 0
    /\ timelineHasMore = FALSE
    /\ isLoadingMore = FALSE
    /\ loadMoreButtons = [orders |-> NoButton, timeline |-> NoButton]
    /\ detailOp = "init"

\* no detail view has been opened
DetailIdle ==
    /\ DetailFields
    /\ detailInFlight = {}
    /\ detailServer = [orders |-> 0, timeline |-> 0]

AuxIdle == ContactIdle /\ FnIdle /\ DetailIdle

Init == CalInit /\ PageInit /\ AuxIdle

Next ==
    \/ FilterTabClick
    \/ NextPageClick
    \/ PrevPageClick
    \/ SearchInput
    \/ SearchDebounceFires
    \/ SearchEnterKey
    \/ SearchClearClick
    \/ DashboardLoaded
    \/ DashboardFailed
    \/ ClientsLoaded
    \/ ClientsFailed
    \/ SearchLoaded
    \/ SearchFailed
    \/ ScSearchInput
    \/ ScSearchDebounceFires
    \/ GoToPage
    \/ EmptyStateClearSearch
    \/ CustomersLoaded
    \/ CustomersFailed
    \/ Tick

\* the client list and the search box of the page loaded
Spec == Init /\ [][Next]_vars

SupportListInit == CalInit /\ SupportInit /\ AuxIdle

SupportListNext ==
    \/ ScSearchInput
    \/ ScSearchDebounceFires
    \/ GoToPage
    \/ EmptyStateClearSearch
    \/ CategoryTabClick
    \/ CustomersLoaded
    \/ CustomersFailed
    \/ Tick

\* the customer list of the support center with its category tabs
SpecSupport == SupportListInit /\ [][SupportListNext]_vars

CalendarNext == CalNext /\ UNCHANGED <<pageVars, auxVars>>

\* the calendar belongs to the retention dashboard
CalendarInit == CalInit /\ RetentionInit /\ AuxIdle

\* the renewal calendar of the retention dashboard
SpecCalendar == CalendarInit /\ [][CalendarNext]_vars

CalendarWaitNext == CalWaitNext /\ UNCHANGED <<pageVars, auxVars>>

\* the renewal calendar when the user waits for each month to load
SpecCalWait == CalendarInit /\ [][CalendarWaitNext]_vars

-----------------------------------------------------------------------------
(* RetentionDashboard.apiCall: what one response makes the call return or   *)
(* throw                                                                    *)

HttpForbidden == 403
HttpUnauthorized == 401
HttpNotFound == 404
HttpServerError == 500

\* response.status of the responses tried
HttpStatuses == {200, 400, 401, 403, 404, 417, 500, 503}

\* response.ok
ResponseOk(status) == status >= 200 /\ status <= 299

\* messages the server may word
ServerTexts == {"Customer is required", "Contact type is invalid"}

\* _server_messages of a response body: absent, not JSON, a JSON list without
\* items, a list whose first item is not JSON, a first item without a
\* message, or a first item carrying a message
ServerMessageValues ==
    {[kind |-> k, text |-> ""] :
        k \in {"absent", "garbage", "emptyList", "garbageItem", "noMessage"}}
    \cup {[kind |-> "message", text |-> t] : t \in ServerTexts}

\* the responses tried: status, the message field of the body ("" when the
\* body has none or is not JSON), the exc field and _server_messages
ApiResponses ==
    [status : HttpStatuses, message : {""} \cup ServerTexts, exc : BOOLEAN,
     serverMessages : ServerMessageValues]

PermissionMessage == "You do not have permission to access this data."
SessionMessage == "Session expired"
NotFoundMessage == "The requested resource was not found."
ServerErrorMessage == "Server error. Please try again later."
RequestFailedMessage == "Request failed: statusText"
ProcessingMessage == "An error occurred while processing your request."
ServerFallbackMessage == "An error occurred on the server."

\* throw new Error(message)
Throws(message, toast) ==
    [done |-> TRUE, threw |-> TRUE, message |-> message, toast |-> toast]

\* return data.message
Returns(value) ==
    [done |-> TRUE, threw |-> FALSE, message |-> value, toast |-> "none"]

\* the body of the inner try: the two JSON.parse calls and the throw that
\* follows them; every path through it throws
ParseServerMessages(sm) ==
    IF sm.kind \in {"garbage", "emptyList", "garbageItem"}
        THEN Throws("SyntaxError", "none")
        ELSE Throws(IF sm.text # "" THEN sm.text ELSE ServerFallbackMessage, "none")

\* the inner try with its catch (e), which throws the same message for
\* whatever the try threw
ServerMessagesError(sm) ==
    IF ParseServerMessages(sm).threw
        THEN Throws(ProcessingMessage, "none")
        ELSE ParseServerMessages(sm)

\* apiCall(method, args) once fetch has resolved with the response
ApiCall(response) ==
    IF ~ResponseOk(response.status) THEN
        IF response.status = HttpForbidden THEN Throws(PermissionMessage, "none")
        ELSE IF response.status = HttpUnauthorized THEN Throws(SessionMessage, "sessionExpired")
        ELSE IF response.status = HttpNotFound THEN Throws(NotFoundMessage, "none")
        ELSE IF response.status >= HttpServerError THEN Throws(ServerErrorMessage, "none")
        ELSE Throws(IF response.message # "" THEN response.message
                                             ELSE RequestFailedMessage, "none")
    ELSE IF response.exc THEN
        IF response.serverMessages.kind # "absent"
            THEN ServerMessagesError(response.serverMessages)
            ELSE Throws(ServerFallbackMessage, "none")
    ELSE Returns(response.message)

\* what a step that applies a function leaves alone
FnFrame == UNCHANGED <<calVars, pageVars, contactVars, detailVars, fnCall>>

\* the promise of apiCall settles
ApiCallSettles ==
    /\ fnCall.name = "apiCall"
    /\ ~fnResult.done
    /\ fnResult' = ApiCall(fnCall.response)
    /\ FnFrame

-----------------------------------------------------------------------------
(* RetentionDashboard.renderPriorityScore and getPriorityLabel              *)

CriticalScore == 75
HighScore == 50
MediumScore == 25
FullBar == 100

\* priority_score of a row: null, or a score
PriorityScores == 0..FullBar

\* priority_level of a row: absent, or what the server sent
PriorityLevelsSent == {"", "critical", "high", "medium", "low", "Critical"}

\* level.toLowerCase()
ToLowerCase(level) == IF level = "Critical" THEN "critical" ELSE level

\* a bug that would make each threshold itself belong to the level below
GetPriorityLabelStrict(score) ==
    IF score > CriticalScore THEN "Critical"
    ELSE IF score > HighScore THEN "High"
    ELSE IF score > MediumScore THEN "Medium"
    ELSE "Low"

\* getPriorityLabel(score), the method of this name the class ends up with
GetPriorityLabel(score) ==
    IF score >= CriticalScore THEN "Critical"
    ELSE IF score >= HighScore THEN "High"
    ELSE IF score >= MediumScore THEN "Medium"
    ELSE "Low"

\* the arguments tried: known is FALSE for a null or undefined score
PriorityArgs ==
    [known : {TRUE}, score : PriorityScores, level : PriorityLevelsSent]
    \cup [known : {FALSE}, score : {0}, level : PriorityLevelsSent]

\* renderPriorityScore(score, level): the dash, or the class of the bar, its
\* width and the label beside the score
RenderPriorityScore(known, score, level) ==
    IF ~known
        THEN [done |-> TRUE, dash |-> TRUE, priorityClass |-> "", barWidth |-> 0,
              label |-> ""]
        ELSE [done |-> TRUE, dash |-> FALSE,
              priorityClass |->
                  IF level # "" THEN ToLowerCase(level)
                  ELSE IF score >= CriticalScore THEN "critical"
                  ELSE IF score >= HighScore THEN "high"
                  ELSE IF score >= MediumScore THEN "medium"
                  ELSE "low",
              barWidth |-> Min(FullBar, Max(0, score)),
              label |-> IF level # "" THEN level ELSE GetPriorityLabel(score)]

\* a row of the client table renders its priority cell
PriorityCellRendered ==
    /\ fnCall.name = "renderPriorityScore"
    /\ ~fnResult.done
    /\ fnResult' = RenderPriorityScore(fnCall.known, fnCall.score, fnCall.level)
    /\ FnFrame

\* Number(level), as score >= n converts a string: the empty string is 0 and
\* a word is NaN
LevelToNumber(level) ==
    IF level = "" THEN [nan |-> FALSE, value |-> 0] ELSE [nan |-> TRUE, value |-> 0]

\* getPriorityLabel, the method the class ends up with, called with a level:
\* a comparison with NaN is false
GetPriorityLabelOfLevel(level) ==
    LET score == LevelToNumber(level)
        AtLeast(n) == ~score.nan /\ score.value >= n
    IN  IF AtLeast(CriticalScore) THEN "Critical"
        ELSE IF AtLeast(HighScore) THEN "High"
        ELSE IF AtLeast(MediumScore) THEN "Medium"
        ELSE "Low"

\* the card of an at-risk client in renderAtRiskClients: the class and the
\* text of its priority badge; priority_level is "" when the server sent none
RenderAtRiskCard(priority_level) ==
    LET priorityLevel == IF priority_level = "" THEN "medium" ELSE priority_level
    IN  [done |-> TRUE,
         priorityClass |-> priorityLevel,
         text |-> GetPriorityLabelOfLevel(priorityLevel)]

AtRiskCardRendered ==
    /\ fnCall.name = "renderAtRiskClients"
    /\ ~fnResult.done
    /\ fnResult' = RenderAtRiskCard(fnCall.level)
    /\ FnFrame

-----------------------------------------------------------------------------
(* calculate_renewal_status of support_center/api/retention_dashboard.py,   *)
(* the classification engine; dates are day numbers                         *)

DueSoonDays == 30
OverdueOrderDays == 365
DueSoonOrderDays == 270

\* a date that is not known
NoDate == [known |-> FALSE, day |-> 0]

\* the day of today
ClassifyTodays == {500, 531}

\* next_renewal_date, by its distance from today
RenewalDates(today) ==
    {NoDate} \cup {[known |-> TRUE, day |-> today + d] : d \in {-1, 0, 10, 30, 31, 45}}

\* last_order_date, by its distance from today
LastOrderDates(today) ==
    {NoDate} \cup {[known |-> TRUE, day |-> today - d] : d \in {0, 270, 271, 365, 366, 400}}

\* the arguments tried
ClassifyArgs ==
    {[today |-> t, next_renewal_date |-> r, last_order_date |-> o] :
        t \in ClassifyTodays, r \in RenewalDates(500) \cup RenewalDates(531),
        o \in LastOrderDates(500) \cup LastOrderDates(531)}

\* a reading in which an old last order outranks a known renewal date
CalculateRenewalStatusOrderFirst(next_renewal_date, last_order_date, today) ==
    IF (next_renewal_date.known /\ next_renewal_date.day < today)
       \/ (last_order_date.known /\ today - last_order_date.day > OverdueOrderDays)
        THEN "overdue"
    ELSE IF (next_renewal_date.known /\ next_renewal_date.day - today <= DueSoonDays)
            \/ (last_order_date.known /\ today - last_order_date.day > DueSoonOrderDays)
        THEN "due_soon"
    ELSE "active"

\* calculate_renewal_status(next_renewal_date, last_order_date, today)
CalculateRenewalStatus(next_renewal_date, last_order_date, today) ==
    IF next_renewal_date.known /\ next_renewal_date.day < today
        THEN "overdue"
    ELSE IF ~next_renewal_date.known /\ last_order_date.known
            /\ today - last_order_date.day > OverdueOrderDays
        THEN "overdue"
    ELSE IF next_renewal_date.known /\ next_renewal_date.day - today <= DueSoonDays
        THEN "due_soon"
    ELSE IF ~next_renewal_date.known /\ last_order_date.known
            /\ today - last_order_date.day > DueSoonOrderDays
            /\ today - last_order_date.day <= OverdueOrderDays
        THEN "due_soon"
    ELSE "active"

\* the server classifies one customer
CustomerClassified ==
    /\ fnCall.name = "calculate_renewal_status"
    /\ ~fnResult.done
    /\ fnResult' = [done |-> TRUE,
                    status |-> CalculateRenewalStatus(fnCall.args.next_renewal_date,
                                                      fnCall.args.last_order_date,
                                                      fnCall.args.today)]
    /\ FnFrame

-----------------------------------------------------------------------------
(* calculate_priority_score of support_center/api/retention_dashboard.py,   *)
(* the priority scorer: four components, each capped, summed and clamped    *)

RevenueCap == 40
UrgencyCap == 35
TierCap == 15
EngagementCap == 10

\* the points a component works out before its cap is applied
RawPoints == {-5, 0, 7, 10, 15, 35, 40, 60}

\* the arguments tried: the uncapped points of the four components
PriorityScoreArgs ==
    [revenue : RawPoints, urgency : RawPoints, tier : RawPoints, engagement : RawPoints]

\* a component held between 0 and its cap
CapScore(points, cap) == Min(cap, Max(0, points))

\* a bug that would let the urgency component exceed its cap
CalculatePriorityScoreUrgencyUncapped(a) ==
    LET revenue == CapScore(a.revenue, RevenueCap)
        urgency == Max(0, a.urgency)
        tier == CapScore(a.tier, TierCap)
        engagement == CapScore(a.engagement, EngagementCap)
    IN  [done |-> TRUE, revenue |-> revenue, urgency |-> urgency, tier |-> tier,
         engagement |-> engagement,
         total |-> revenue + urgency + tier + engagement]

\* calculate_priority_score(customer): the four sub-scores and their total
CalculatePriorityScore(a) ==
    LET revenue == CapScore(a.revenue, RevenueCap)
        urgency == CapScore(a.urgency, UrgencyCap)
        tier == CapScore(a.tier, TierCap)
        engagement == CapScore(a.engagement, EngagementCap)
    IN  [done |-> TRUE, revenue |-> revenue, urgency |-> urgency, tier |-> tier,
         engagement |-> engagement,
         total |-> Min(FullBar, Max(0, revenue + urgency + tier + engagement))]

\* the server scores one customer
CustomerScored ==
    /\ fnCall.name = "calculate_priority_score"
    /\ ~fnResult.done
    /\ fnResult' = CalculatePriorityScore(fnCall.args)
    /\ FnFrame

-----------------------------------------------------------------------------
(* validate_pagination and validate_days_range of                          *)
(* support_center/api/validators.py, as get_clients_by_renewal_status      *)
(* applies them to its integer parameters                                   *)

DefaultLimit == 50
MaxLimit == 100
DefaultDaysRange == 90
MaxDaysRange == 365

\* the parameters tried
ValidationArgs ==
    [limit : {-5, 0, 1, 50, 100, 101, 1000}, offset : {-3, 0, 20},
     days_range : {-1, 0, 1, 90, 365, 366}]

\* "cint(x) if x else d": a zero is falsy and takes the default
CintOr(x, d) == IF x # 0 THEN x ELSE d

\* a bug that would leave out the upper bound of limit
ValidatePaginationNoUpperBound(limit, offset) ==
    [limit |-> Max(CintOr(limit, DefaultLimit), 1),
     offset |-> IF CintOr(offset, 0) < 0 THEN 0 ELSE CintOr(offset, 0)]

\* validate_pagination(limit, offset)
ValidatePagination(limit, offset) ==
    [limit |-> IF CintOr(limit, DefaultLimit) < 1 \/ CintOr(limit, DefaultLimit) > MaxLimit
                   THEN Min(Max(CintOr(limit, DefaultLimit), 1), MaxLimit)
                   ELSE CintOr(limit, DefaultLimit),
     offset |-> IF CintOr(offset, 0) < 0 THEN 0 ELSE CintOr(offset, 0)]

\* validate_days_range(days_range)
ValidateDaysRange(days_range) ==
    Min(Max(CintOr(days_range, DefaultDaysRange), 1), MaxDaysRange)

\* get_clients_by_renewal_status validates its parameters
ParametersValidated ==
    /\ fnCall.name = "validate_pagination"
    /\ ~fnResult.done
    /\ fnResult' = [done |-> TRUE,
                    limit |-> ValidatePagination(fnCall.args.limit, fnCall.args.offset).limit,
                    offset |-> ValidatePagination(fnCall.args.limit, fnCall.args.offset).offset,
                    days_range |-> ValidateDaysRange(fnCall.args.days_range)]
    /\ FnFrame

-----------------------------------------------------------------------------
(* The functions applied one at a time, each to one input *)

FnCalls ==
    {[name |-> "apiCall", response |-> r] : r \in ApiResponses}
    \cup {[name |-> "renderPriorityScore", known |-> a.known, score |-> a.score,
           level |-> a.level] : a \in PriorityArgs}
    \cup {[name |-> "calculate_renewal_status", args |-> a] : a \in ClassifyArgs}
    \cup {[name |-> "calculate_priority_score", args |-> a] : a \in PriorityScoreArgs}
    \cup {[name |-> "validate_pagination", args |-> a] : a \in ValidationArgs}
    \cup {[name |-> "renderAtRiskClients", level |-> l] : l \in PriorityLevelsSent}

FnInit ==
    /\ CalInit
    /\ RetentionInit
    /\ ContactIdle
    /\ DetailIdle
    /\ fnCall \in FnCalls
    /\ fnResult = [done |-> FALSE]

FnNext ==
    \/ ApiCallSettles
    \/ PriorityCellRendered
    \/ CustomerClassified
    \/ CustomerScored
    \/ ParametersValidated
    \/ AtRiskCardRendered

\* apiCall, renderPriorityScore and calculate_renewal_status on every input tried
SpecFn == FnInit /\ [][FnNext]_vars

-----------------------------------------------------------------------------
(* RetentionDashboard: the "Log Contact" dialog.  showContactDialog appends *)
(* a dialog with the id contact-dialog to the body and looks its elements   *)
(* up by id; getElementById returns the first element of that id in tree    *)
(* order, so every call attaches its listeners to the first dialog of the   *)
(* document.                                                                *)

\* dialogs that may be in the document at the same time
MaxDialogs == 2
\* mark_customer_contacted calls that may be awaiting a response
MaxContactInFlight == 2

\* data-customer-id of the rows whose "mark contacted" button is used
ContactCustomers == {"CUST-1", "CUST-2"}

\* data-type of the contact type buttons used
ContactTypes == {"call", "email"}

ContactHistory(name, sent) == [name |-> name, sent |-> sent]

\* what a step of the dialog leaves alone
ContactFrame == UNCHANGED <<calVars, pageVars, fnVars, detailVars>>

\* the arguments of the mark_customer_contacted calls that the submit
\* listeners of the closures make, in the order the listeners were added
MarkCustomerContacted(closures) ==
    LET chosen == SelectSeq(closures, LAMBDA c : c.selectedType # "")
    IN  [i \in 1..Len(chosen) |->
            [customer_id |-> chosen[i].customerId,
             contact_type |-> chosen[i].selectedType]]

\* click on a .mark-contacted-btn: showContactDialog(customerId, customerName)
ShowContactDialog(customerId) ==
    /\ Len(contactDialogs) < MaxDialogs
    /\ contactDialogs' = Append(contactDialogs, customerId)
    /\ contactClosures' =
           Append(contactClosures, [customerId |-> customerId, selectedType |-> ""])
    /\ contactOp' = ContactHistory("open", <<>>)
    /\ UNCHANGED <<contactSubmitEnabled, contactInFlight>>
    /\ ContactFrame

MarkContactedClick == \E c \in ContactCustomers : ShowContactDialog(c)

\* click on a contact type button of the first dialog: every listener on it
\* sets the selectedType of its closure and enables the submit button
ContactTypeClick ==
    \E t \in ContactTypes :
        /\ contactDialogs # <<>>
        /\ contactClosures # <<>>
        /\ contactClosures' =
               [i \in 1..Len(contactClosures) |->
                   [contactClosures[i] EXCEPT !.selectedType = t]]
        /\ contactSubmitEnabled' = TRUE
        /\ contactOp' = ContactHistory("select", <<>>)
        /\ UNCHANGED <<contactDialogs, contactInFlight>>
        /\ ContactFrame

\* click on the enabled "Log Contact" button of the first dialog: every
\* listener on it runs, each calling markCustomerContacted up to its await
\* unless its selectedType is null, and removing the dialog
ContactSubmitClick ==
    /\ contactDialogs # <<>>
    /\ contactSubmitEnabled
    /\ contactInFlight + Len(MarkCustomerContacted(contactClosures)) <= MaxContactInFlight
    /\ contactInFlight' = contactInFlight + Len(MarkCustomerContacted(contactClosures))
    /\ contactDialogs' = Tail(contactDialogs)
    /\ contactClosures' = <<>>
    /\ contactSubmitEnabled' = FALSE
    /\ contactOp' = ContactHistory("submit", MarkCustomerContacted(contactClosures))
    /\ ContactFrame

\* click on Cancel, on the close button or on the backdrop: the first
\* dialog of the document is removed
ContactDialogClose ==
    /\ contactDialogs # <<>>
    /\ contactDialogs' = Tail(contactDialogs)
    /\ contactClosures' = <<>>
    /\ contactSubmitEnabled' = FALSE
    /\ contactOp' = ContactHistory("close", <<>>)
    /\ UNCHANGED contactInFlight
    /\ ContactFrame

\* markCustomerContacted after its await: a toast, and on success the last
\* contact of the row is shown
ContactResponse(ok) ==
    /\ contactInFlight > 0
    /\ contactInFlight' = contactInFlight - 1
    /\ contactOp' = ContactHistory(IF ok THEN "logged" ELSE "failed", <<>>)
    /\ UNCHANGED <<contactDialogs, contactClosures, contactSubmitEnabled>>
    /\ ContactFrame

ContactLogged == ContactResponse(TRUE)

ContactFailed == ContactResponse(FALSE)

ContactInit == CalInit /\ RetentionInit /\ ContactIdle /\ FnIdle /\ DetailIdle

ContactNext ==
    \/ MarkContactedClick
    \/ ContactTypeClick
    \/ ContactSubmitClick
    \/ ContactDialogClose
    \/ ContactLogged
    \/ ContactFailed

\* the "Log Contact" dialog of the retention dashboard
SpecContact == ContactInit /\ [][ContactNext]_vars

-----------------------------------------------------------------------------
(* SupportDashboard: the detail view of a customer, its orders table and    *)
(* its timeline, each loaded in batches with a "Load More" button           *)

ordersPageSize == 10
timelinePageSize == 15

\* the customers tried: how many orders and timeline events the server has
DetailServers ==
    {[orders |-> o, timeline |-> t] : o \in {0, 10, 25}, t \in {15, 20}}

\* grand_total of the order at a position of the server's list
GrandTotal(position) == (position * 7) % 4

\* the server: the positions a call with a limit and an offset returns
ServerSlice(total, limit, offset) ==
    [i \in 1..Min(limit, Max(0, total - offset)) |-> offset + i]

\* array.slice(0, n)
Slice(seq, n) == SubSeq(seq, 1, Min(n, Len(seq)))

\* a button just rendered from its HTML
FreshButton(present, listener) ==
    [present |-> present, disabled |-> FALSE, listener |-> present /\ listener]

\* the comparison of sortOrders: whether a goes before b
SortsBefore(a, b, sort) ==
    LET aVal == IF sort.field = "transaction_date" THEN 0 - a ELSE GrandTotal(a)
        bVal == IF sort.field = "transaction_date" THEN 0 - b ELSE GrandTotal(b)
    IN  IF sort.direction = "asc" THEN aVal < bVal ELSE aVal > bVal

\* Array.prototype.sort with that comparison, which is stable
RECURSIVE SortOrdersArray(_, _)
SortOrdersArray(seq, sort) ==
    IF seq = <<>> THEN <<>>
    ELSE LET rest == SortOrdersArray(Tail(seq), sort)
             k == Cardinality({i \in 1..Len(rest) : SortsBefore(rest[i], Head(seq), sort)})
         IN  SubSeq(rest, 1, k) \o <<Head(seq)>> \o SubSeq(rest, k + 1, Len(rest))

\* what a step of the detail view leaves alone
DetailFrame == UNCHANGED <<calVars, pageVars, contactVars, fnVars, detailServer>>

\* loadCustomerDetail after its await, Promise.all having resolved:
\* the first batches are kept and renderDashboard shows them
CustomerDetailLoaded ==
    \E r \in detailInFlight :
        /\ r.kind = "detail"
        /\ detailInFlight' = detailInFlight \ {r}
        /\ LET orders == ServerSlice(detailServer.orders, ordersPageSize + 1, 0)
               timeline == ServerSlice(detailServer.timeline, timelinePageSize + 1, 0)
           IN  /\ ordersHasMore' = (Len(orders) > ordersPageSize)
               /\ ordersLoaded' = Len(Slice(orders, ordersPageSize))
               /\ timelineHasMore' = (Len(timeline) > timelinePageSize)
               /\ timelineLoaded' = Len(Slice(timeline, timelinePageSize))
               /\ currentOrders' = IF Len(orders) = 0 THEN currentOrders
                                   ELSE Slice(orders, ordersPageSize)
               /\ ordersSort' = IF Len(orders) = 0 THEN ordersSort
                                ELSE [field |-> "transaction_date", direction |-> "desc"]
               /\ currentTimeline' = Slice(timeline, timelinePageSize)
               /\ loadMoreButtons' =
                     [orders |-> FreshButton(Len(orders) > ordersPageSize, TRUE),
                      timeline |-> FreshButton(Len(timeline) > timelinePageSize, TRUE)]
        /\ currentCustomer' = TRUE
        /\ detailOp' = "detailLoaded"
        /\ UNCHANGED isLoadingMore
        /\ DetailFrame

\* loadCustomerDetail after its await, a call having failed: the error state
CustomerDetailFailed ==
    \E r \in detailInFlight :
        /\ r.kind = "detail"
        /\ detailInFlight' = detailInFlight \ {r}
        /\ detailOp' = "detailFailed"
        /\ UNCHANGED <<currentCustomer, currentOrders, ordersSort, ordersLoaded,
                       ordersHasMore, currentTimeline, timelineLoaded, timelineHasMore,
                       isLoadingMore, loadMoreButtons>>
        /\ DetailFrame

\* click on a sortable header of the orders table: sortOrders(field)
SortOrders(field) ==
    /\ currentCustomer
    /\ currentOrders # <<>>
    /\ ordersSort' =
          IF ordersSort.field = field
              THEN [ordersSort EXCEPT !.direction = IF @ = "asc" THEN "desc" ELSE "asc"]
              ELSE [field |-> field, direction |-> "desc"]
    /\ currentOrders' = SortOrdersArray(currentOrders, ordersSort')
    \* the table is rendered anew and only the sort listeners are attached
    /\ loadMoreButtons' = [loadMoreButtons EXCEPT !.orders = FreshButton(ordersHasMore, FALSE)]
    /\ detailOp' = "sort"
    /\ UNCHANGED <<currentCustomer, ordersLoaded, ordersHasMore, currentTimeline,
                   timelineLoaded, timelineHasMore, isLoadingMore, detailInFlight>>
    /\ DetailFrame

SortHeaderClick == \E field \in {"transaction_date", "grand_total"} : SortOrders(field)

\* a bug that would ask for the batch after the next one
LoadMoreOrdersSkipping ==
    /\ loadMoreButtons.orders.present
    /\ ~loadMoreButtons.orders.disabled
    /\ loadMoreButtons.orders.listener
    /\ ~isLoadingMore /\ ordersHasMore /\ currentCustomer
    /\ isLoadingMore' = TRUE
    /\ loadMoreButtons' = [loadMoreButtons EXCEPT !.orders.disabled = TRUE]
    /\ detailInFlight' = detailInFlight \cup
          {[kind |-> "orders", offset |-> ordersLoaded + 1]}
    /\ detailOp' = "moreOrders"
    /\ UNCHANGED <<currentCustomer, currentOrders, ordersSort, ordersLoaded, ordersHasMore,
                   currentTimeline, timelineLoaded, timelineHasMore>>
    /\ DetailFrame

\* click on "Load More Orders": loadMoreOrders() up to its await
LoadMoreOrders ==
    /\ loadMoreButtons.orders.present
    /\ ~loadMoreButtons.orders.disabled
    /\ loadMoreButtons.orders.listener
    /\ ~isLoadingMore /\ ordersHasMore /\ currentCustomer
    /\ isLoadingMore' = TRUE
    /\ loadMoreButtons' = [loadMoreButtons EXCEPT !.orders.disabled = TRUE]
    /\ detailInFlight' = detailInFlight \cup
          {[kind |-> "orders", offset |-> ordersLoaded]}
    /\ detailOp' = "moreOrders"
    /\ UNCHANGED <<currentCustomer, currentOrders, ordersSort, ordersLoaded, ordersHasMore,
                   currentTimeline, timelineLoaded, timelineHasMore>>
    /\ DetailFrame

\* loadMoreOrders() after its await
MoreOrdersResponse(r, ok) ==
    /\ r.kind = "orders"
    /\ detailInFlight' = detailInFlight \ {r}
    /\ isLoadingMore' = FALSE
    /\ IF ok
       THEN LET moreOrders == ServerSlice(detailServer.orders, ordersPageSize + 1, r.offset)
                newOrders == Slice(moreOrders, ordersPageSize)
            IN  /\ ordersHasMore' = (Len(moreOrders) > ordersPageSize)
                /\ currentOrders' = currentOrders \o newOrders
                /\ ordersLoaded' = ordersLoaded + Len(newOrders)
                /\ loadMoreButtons' =
                      [loadMoreButtons EXCEPT
                          !.orders = FreshButton(Len(moreOrders) > ordersPageSize, TRUE)]
                /\ detailOp' = "moreOrdersLoaded"
       ELSE /\ detailOp' = "moreOrdersFailed"
            /\ UNCHANGED <<ordersHasMore, currentOrders, ordersLoaded, loadMoreButtons>>
    /\ UNCHANGED <<currentCustomer, ordersSort, currentTimeline, timelineLoaded,
                   timelineHasMore>>
    /\ DetailFrame

MoreOrdersLoaded == \E r \in detailInFlight : MoreOrdersResponse(r, TRUE)

MoreOrdersFailed == \E r \in detailInFlight : MoreOrdersResponse(r, FALSE)

\* click on "Load More History": loadMoreTimeline() up to its await
LoadMoreTimeline ==
    /\ loadMoreButtons.timeline.present
    /\ ~loadMoreButtons.timeline.disabled
    /\ loadMoreButtons.timeline.listener
    /\ ~isLoadingMore /\ timelineHasMore /\ currentCustomer
    /\ isLoadingMore' = TRUE
    /\ loadMoreButtons' = [loadMoreButtons EXCEPT !.timeline.disabled = TRUE]
    /\ detailInFlight' = detailInFlight \cup
          {[kind |-> "timeline", offset |-> timelineLoaded]}
    /\ detailOp' = "moreTimeline"
    /\ UNCHANGED <<currentCustomer, currentOrders, ordersSort, ordersLoaded, ordersHasMore,
                   currentTimeline, timelineLoaded, timelineHasMore>>
    /\ DetailFrame

\* loadMoreTimeline() after its await
MoreTimelineResponse(r, ok) ==
    /\ r.kind = "timeline"
    /\ detailInFlight' = detailInFlight \ {r}
    /\ isLoadingMore' = FALSE
    /\ IF ok
       THEN LET moreItems == ServerSlice(detailServer.timeline, timelinePageSize + 1, r.offset)
                newItems == Slice(moreItems, timelinePageSize)
            IN  /\ timelineHasMore' = (Len(moreItems) > timelinePageSize)
                /\ currentTimeline' = currentTimeline \o newItems
                /\ timelineLoaded' = timelineLoaded + Len(newItems)
                /\ loadMoreButtons' =
                      [loadMoreButtons EXCEPT
                          !.timeline = FreshButton(Len(moreItems) > timelinePageSize, TRUE)]
                /\ detailOp' = "moreTimelineLoaded"
       ELSE /\ detailOp' = "moreTimelineFailed"
            /\ UNCHANGED <<timelineHasMore, currentTimeline, timelineLoaded, loadMoreButtons>>
    /\ UNCHANGED <<currentCustomer, currentOrders, ordersSort, ordersLoaded, ordersHasMore>>
    /\ DetailFrame

MoreTimelineLoaded == \E r \in detailInFlight : MoreTimelineResponse(r, TRUE)

MoreTimelineFailed == \E r \in detailInFlight : MoreTimelineResponse(r, FALSE)

\* new SupportDashboard() in the detail view of a customer: the constructor,
\* then loadCustomerDetail() up to its await
DetailInit ==
    /\ CalInit
    /\ SupportInit
    /\ ~showingCustomerList
    /\ ContactIdle
    /\ FnIdle
    /\ DetailFields
    /\ detailInFlight = {[kind |-> "detail", offset |-> 0]}
    /\ detailServer \in DetailServers

DetailNext ==
    \/ CustomerDetailLoaded
    \/ CustomerDetailFailed
    \/ SortHeaderClick
    \/ LoadMoreOrders
    \/ MoreOrdersLoaded
    \/ MoreOrdersFailed
    \/ LoadMoreTimeline
    \/ MoreTimelineLoaded
    \/ MoreTimelineFailed

\* the detail view of a customer of the support center
SpecDetail == DetailInit /\ [][DetailNext]_vars

-----------------------------------------------------------------------------
(* Properties of the calendar *)

SelectedMonth == [year |-> calendarYear, month |-> calendarMonth]

\* a step that ran loadCalendarData up to its await
CalLoadStep == calOp' \in {"hit", "staleHit", "miss"}

\* the requests whose response arrives in this step
CalCompleted == {r \in calInFlight : \A q \in calInFlight' : q.id # r.id}

\* C3: rapid month switching always shows the correct month: once no calendar
\* request is pending, the calendar rendered is the one of the selected
\* (calendarYear, calendarMonth).
C3_SettledCalendarIsSelectedMonth ==
    (calInFlight = {} /\ calView.grid = "month") => calView.gridMonth = SelectedMonth

\* C7: a calendar request superseded by a newer calendar request has no effect
\* when it completes: nothing is rendered and nothing is written to the cache.
C7_SupersededHasNoEffect ==
    [][\A r \in CalCompleted :
          r.id # pendingCalendarRequest =>
             /\ calView' = calView
             /\ calendarCache' = calendarCache
             /\ pendingCalendarRequest' = pendingCalendarRequest]_vars

\* a superseded request has completed while its successor is still awaited
C7_Witness == calOp = "discard" /\ pendingCalendarRequest # 0

\* C8: loading a month whose data is in the calendar cache renders that month
\* from the cache and sends no request.
C8_CachedMonthSendsNoRequest ==
    [][(CalLoadStep /\ CacheHas(calendarCache, CacheKey(calendarYear', calendarMonth'))) =>
          /\ calInFlight' = calInFlight
          /\ pendingCalendarRequest' = pendingCalendarRequest
          /\ calView' = RenderCalendar(CalendarData(calendarYear', calendarMonth'))]_vars

\* a month other than the one stored last has been shown from the cache
C8_Witness ==
    /\ calOp = "hit"
    /\ calView.gridMonth = SelectedMonth
    /\ calendarCache[Len(calendarCache)].data # SelectedMonth

\* C9: the cache never holds more than 6 months after a load completes; a store
\* that overflows it evicts the oldest entry and keeps the month just stored.
C9_CacheBoundedEvictsOldest ==
    [][/\ Len(calendarCache') <= CalendarCacheLimit
       /\ \A r \in CalCompleted :
             calOp' \in {"store", "evict"} =>
                /\ CacheHas(calendarCache', r.key)
                /\ CacheGet(calendarCache', r.key) = CalendarData(r.year, r.month)
                /\ \A k \in CacheKeys(calendarCache) \ CacheKeys(calendarCache') :
                      /\ Len(calendarCache) = CalendarCacheLimit
                      /\ k = calendarCache[1].key
                      /\ k # r.key]_vars

\* a store has overflowed the cache and evicted an entry
C9_Witness == calOp = "evict" /\ Len(calendarCache) = CalendarCacheLimit

-----------------------------------------------------------------------------
(* Properties of the client list and the search box *)

\* the requests whose response arrives in this step
Completed == inFlight \ inFlight'

\* the requests this step sends
Sent == inFlight' \ inFlight

\* the list request of the constructor (loadDashboard)
DashboardRequest == CHOOSE r \in [id : {1}, kind : {"dashboard"}] : TRUE

\* a step in which the user's typing reaches the search: the debounce callback
\* or the Enter key
TypingStep == lastOp'.name \in {"debounce", "enter"}

\* the debounce window of the page loaded
DebounceWindow == IF page = "retention" THEN SearchDebounceMs ELSE ScSearchDebounceMs

\* C1: whatever the order of the responses, once no list request is in flight
\* the rows a list response rendered are those of the most recently issued list
\* request, which is the one for the filter and page in effect.
C1_LatestListRequestIsRendered ==
    (/\ page = "retention"
     /\ \A r \in inFlight : r.kind # "list"
     /\ clientsTable.kind \in {"rows", "empty"}
     /\ clientsTable.id # DashboardRequest.id)
    => /\ clientsTable.rows.filter = currentFilter
       /\ clientsTable.rows.offset = (currentPage - 1) * pageSize

\* C2: the response of a search request never overwrites the results on screen
\* of a search request for another query that was issued after it.
C2_StaleSearchNeverOverwritesNewer ==
    [][\A r \in Completed :
          (/\ r.kind = "search"
           /\ clientsTable.kind \in {"searchRows", "searchEmpty"}
           /\ clientsTable.id > r.id
           /\ clientsTable.query # r.query)
          => clientsTable' = clientsTable]_vars

\* C4: when a list or search request fails, the rows held and the page they
\* belong to are left as they were before the request: the failure changes
\* neither, and the rows held are still those of the current page.
C4_FailureLeavesHeldDataAsItWas ==
    [][lastOp'.name \in {"listFailed", "searchFailed"} =>
          /\ clients' = clients
          /\ currentPage' = currentPage
          /\ clients'.n > 0 => clients'.offset = (currentPage' - 1) * pageSize]_vars

\* C5 as stated: every query of 2 or more characters that typing or Enter
\* hands to the search is sent.
C5_LongQueryAlwaysSent ==
    [][(TypingStep /\ Len(lastOp'.query) >= MinQueryLength) =>
          \E r \in Sent : r.query = lastOp'.query]_vars

\* C5 amended: a query of fewer than 2 characters after trimming is never sent,
\* from typing or from Enter; a query of 2 or more characters is sent on the
\* retention dashboard, and in the support center while the customer list is
\* showing (in a detail view it is dropped).
C5_ShortQueryNeverSentLongQuerySentFromList ==
    [][/\ lastOp'.name = "enter" => lastOp'.query = Trim(searchInput)
       /\ lastOp'.name = "input" => \A r \in Sent : r.query = <<>>
       /\ TypingStep =>
             /\ \A r \in Sent :
                   /\ r.kind \in {"search", "customers"}
                   /\ r.query = lastOp'.query
                   /\ Len(r.query) >= MinQueryLength
             /\ Len(lastOp'.query) < MinQueryLength => Sent = {}
             /\ (Len(lastOp'.query) >= MinQueryLength
                    /\ (page = "retention" \/ showingCustomerList))
                => \E r \in Sent : r.query = lastOp'.query
             /\ (page = "support" /\ ~showingCustomerList) => Sent = {}]_vars

\* a query of exactly 2 characters has been typed, debounced and sent
C5_Witness ==
    /\ lastOp.name = "debounce"
    /\ lastOp.query = <<"a", "b">>
    /\ \E r \in inFlight : r.id = nextReqId - 1 /\ r.query = <<"a", "b">>

\* C6: the debounce callback that runs is the one of the last input event, it
\* runs no sooner than the debounce window after that event (400 ms on the
\* retention dashboard, 300 ms in the support center), it is the only one to run
\* for that event and leaves no other timer pending, and the request it sends
\* carries the trimmed value of that event.
C6_DebouncedSearchCarriesLatestInput ==
    [][lastOp'.name = "debounce" =>
          /\ \E t \in timers \ timers' :
                /\ t.id = searchTimeout
                /\ t.age >= DebounceWindow
                /\ t.value = Trim(lastTyped)
                /\ lastOp'.query = t.value
          /\ timers' = {}
          /\ firedSinceInput = 0
          /\ \A r \in Sent : r.query = Trim(lastTyped)]_vars

\* after a burst of input events one debounced search has been sent, with the
\* value of the last event
C6_Witness ==
    /\ lastOp.name = "debounce"
    /\ firedSinceInput = 1
    /\ timers = {}
    /\ lastTyped = <<"b", "a", "r">>
    /\ \E r \in inFlight : r.id = nextReqId - 1 /\ r.query = Trim(lastTyped)

\* the steps in which a request of the page is answered with a failure
FailureStep ==
    lastOp'.name \in {"dashboardFailed", "listFailed", "searchFailed", "customersFailed"}

\* what a request asks for, whatever its id
Asks(r) == <<r.kind, r.filter, r.offset, r.query>>

\* C11: a failed request is never retried automatically: the step in which a
\* request fails sends no request that asks for the same thing, and a calendar
\* request that fails or is discarded is followed by no new calendar request.
C11_FailedRequestNotReissued ==
    [][/\ FailureStep => \A r \in Completed : \A s \in Sent : Asks(s) # Asks(r)
       /\ calOp' \in {"error", "discard"} =>
             Cardinality(calInFlight') = Cardinality(calInFlight) - 1]_vars

\* a list request has failed and nothing is in flight
C11_Witness ==
    /\ lastOp.name \in {"listFailed", "customersFailed"}
    /\ inFlight = {}

\* the table of the page loaded shows a loading indicator
ViewLoading ==
    \/ clientsTable.kind \in {"loading", "searchLoading"}
    \/ customerTable.kind = "skeleton"
    \/ isLoadingPage

\* the table of the page loaded shows rows, an empty state or an error
ViewDisplayingOrError ==
    IF page = "retention"
    THEN clientsTable.kind \in {"rows", "empty", "searchRows", "searchEmpty", "error"}
    ELSE customerTable.kind \in {"rows", "empty", "error"}

\* C12: when the answer of a list or search request leaves no request
\* outstanding, the list view shows rows, an empty state or an error, and no
\* loading indicator.
C12_AnsweredViewIsDisplayingOrError ==
    [][((\E r \in Completed : r.kind \in {"list", "search", "customers"})
          /\ inFlight' = {})
       => (ViewDisplayingOrError' /\ ~ViewLoading')]_vars

\* a search has been answered after the list, and nothing is outstanding
C12_Witness ==
    /\ lastOp.name = "searchLoaded"
    /\ inFlight = {}
    /\ clientsTable.kind = "searchRows"


\* the positions in the result set of the rows a list response holds
RowPositions(rows) == (rows.offset + 1)..(rows.offset + rows.n)

\* the rows the server returns for page p of a filter
PageOf(filter, p) ==
    ClientRows([filter |-> filter, offset |-> (p - 1) * pageSize])

\* the number of pages of a filter: Math.ceil(total / pageSize)
PagesOf(filter) == (ServerClients(filter) + pageSize - 1) \div pageSize

\* the pages of every filter cover its result set, each row once; the All tab
\* has 3 pages and its last page 30 rows
PagesPartition ==
    /\ \A f \in Filters :
          /\ UNION {RowPositions(PageOf(f, p)) : p \in 1..PagesOf(f)}
                = 1..ServerClients(f)
          /\ \A p, q \in 1..PagesOf(f) :
                p # q => RowPositions(PageOf(f, p)) \cap RowPositions(PageOf(f, q)) = {}
    /\ PagesOf("") = 3
    /\ PageOf("", PagesOf("")).n = 30

\* C13: every list request asks for the page in effect with offset
\* (p - 1) x pageSize, and the pages so requested partition the result set: for
\* the 130 clients of the All tab pages 1..3 cover every row once, without
\* overlap, and the last page has 30 rows.
C13_PagesPartitionResultSet ==
    [][/\ \A s \in Sent :
             s.kind = "list" =>
                /\ s.offset = (currentPage' - 1) * pageSize
                /\ s.filter = currentFilter'
       /\ \A r \in Completed :
             (r.kind = "list" /\ lastOp'.name = "listLoaded") =>
                /\ clients' = ClientRows(r)
                /\ RowPositions(clients') \subseteq 1..ServerClients(r.filter)
       /\ PagesPartition]_vars

\* the third and last page of the All tab has been loaded
C13_Witness ==
    /\ lastOp.name = "listLoaded"
    /\ currentPage = 3
    /\ clients = PageOf("", 3)
    /\ clientsTable.kind = "rows"

\* the table shows the last page of its filter: no row lies beyond its rows
OnLastPage ==
    /\ clientsTable.kind \in {"rows", "empty"}
    /\ clientsTable.rows.offset + clientsTable.rows.n
          >= ServerClients(clientsTable.rows.filter)

\* C14: on the last page of the client list the Next button is disabled,
\* whatever the total number of clients.
C14_NextDisabledOnLastPage ==
    (page = "retention" /\ OnLastPage) => ~pagination.hasNext

\* C15: a click on a filter tab sets the current page to 1 and the request it
\* sends has offset 0.
C15_FilterClickResetsPage ==
    [][lastOp'.name = "filter" =>
          /\ currentPage' = 1
          /\ \A s \in Sent : s.offset = 0]_vars

\* C16: a step that sends a search request sets the current page of the list
\* to 1.
C16_SearchResetsPage ==
    [][(\E s \in Sent : s.kind = "search") => currentPage' = 1]_vars

-----------------------------------------------------------------------------
(* Properties of apiCall *)

\* the response is a server exception carrying a server message that parses
CarriesServerMessage(response) ==
    /\ ResponseOk(response.status)
    /\ response.exc
    /\ response.serverMessages.kind = "message"

\* C17: a 403 makes apiCall throw the permission message, and a server
\* exception that carries a parsable server message makes it throw an error
\* with that server message rather than a generic one
C17_FailuresSurfaceSpecificMessage ==
    (fnCall.name = "apiCall" /\ fnResult.done) =>
        /\ fnCall.response.status = HttpForbidden =>
              (fnResult.threw /\ fnResult.message = PermissionMessage)
        /\ CarriesServerMessage(fnCall.response) =>
              (fnResult.threw /\ fnResult.message = fnCall.response.serverMessages.text)

\* the part of C17 about permission failures, which the code does meet
C17_ForbiddenYieldsPermissionMessage ==
    (fnCall.name = "apiCall" /\ fnResult.done /\ fnCall.response.status = HttpForbidden) =>
        (fnResult.threw /\ fnResult.message = PermissionMessage)

\* what the code does with the server message: whatever _server_messages
\* holds, the caller gets the same generic message
C17_ServerMessageIsReplaced ==
    (fnCall.name = "apiCall" /\ fnResult.done /\ ResponseOk(fnCall.response.status)
     /\ fnCall.response.exc /\ fnCall.response.serverMessages.kind # "absent") =>
        (fnResult.threw /\ fnResult.message = ProcessingMessage)

-----------------------------------------------------------------------------
(* Properties of the priority cell *)

\* renderPriorityScore has rendered a score for which the server sent no level
LevelDerived ==
    fnCall.name = "renderPriorityScore" /\ fnResult.done /\ fnCall.known /\ fnCall.level = ""

C19_SentLevelShownAsSent ==
    (fnCall.name = "renderPriorityScore" /\ fnResult.done /\ fnCall.known
     /\ fnCall.level # "") =>
        (fnResult.label = fnCall.level /\ fnResult.priorityClass = ToLowerCase(fnCall.level))

-----------------------------------------------------------------------------
(* Properties of the classification engine *)

\* a customer whose next_renewal_date is known has been classified
ClassifiedByRenewalDate ==
    /\ fnCall.name = "calculate_renewal_status"
    /\ fnResult.done
    /\ fnCall.args.next_renewal_date.known

-----------------------------------------------------------------------------
(* Properties of the "Log Contact" dialog *)

\* C18: a mark_customer_contacted request is sent only when the user submits
\* the contact dialog with a contact type selected, each submit sends exactly
\* one request, for the customer of the dialog submitted, and no other step
\* sends one
C18_OneRequestPerSubmit ==
    [][/\ contactInFlight' > contactInFlight => contactOp'.name = "submit"
       /\ contactOp'.name = "submit" =>
             /\ Len(contactOp'.sent) = 1
             /\ contactInFlight' = contactInFlight + 1
             /\ contactOp'.sent[1].contact_type \in ContactTypes
             /\ contactOp'.sent[1].customer_id = Head(contactDialogs)
       /\ \A r \in inFlight' : r.kind \in {"dashboard", "list", "search", "customers"}]_vars

\* the part of C18 the code does meet: only a submit sends requests, and
\* each request sent carries a contact type that was selected
C18_RequestsOnlyOnSubmitWithType ==
    [][/\ contactInFlight' > contactInFlight => contactOp'.name = "submit"
       /\ \A i \in 1..Len(contactOp'.sent) : contactOp'.sent[i].contact_type \in ContactTypes
       /\ contactInFlight' = contactInFlight + Len(contactOp'.sent)
             \/ contactOp'.name \in {"logged", "failed"}]_vars

\* with one dialog in the document, opened when there was none, a submit
\* sends exactly one request, for the customer of that dialog
C18_LoneDialogSendsOne ==
    [][(contactOp'.name = "submit" /\ Len(contactDialogs) = 1 /\ Len(contactClosures) = 1
        /\ contactClosures[1].customerId = contactDialogs[1]) =>
           (Len(contactOp'.sent) = 1 /\ contactOp'.sent[1].customer_id = contactDialogs[1])]_vars

-----------------------------------------------------------------------------
(* Properties of the priority scorer *)

\* C21: the priority score lies between 0 and 100, each sub-score lies
\* between 0 and its cap (revenue 40, urgency 35, tier 15, engagement 10)
\* and the total is the sum of the four sub-scores
C21_ScoreWithinCapsAndSum ==
    (fnCall.name = "calculate_priority_score" /\ fnResult.done) =>
        /\ fnResult.total \in 0..100
        /\ fnResult.revenue \in 0..40
        /\ fnResult.urgency \in 0..35
        /\ fnResult.tier \in 0..15
        /\ fnResult.engagement \in 0..10
        /\ fnResult.total
              = fnResult.revenue + fnResult.urgency + fnResult.tier + fnResult.engagement

\* every component worked out more points than its cap and the score is 100
C21_Witness ==
    /\ fnCall.name = "calculate_priority_score"
    /\ fnResult.done
    /\ fnCall.args.revenue = 60 /\ fnCall.args.urgency = 60
    /\ fnCall.args.tier = 60 /\ fnCall.args.engagement = 60
    /\ fnResult.total = 100

-----------------------------------------------------------------------------
(* Properties of the validation of the pagination parameters *)

\* the parameters of get_clients_by_renewal_status have been validated
Validated == fnCall.name = "validate_pagination" /\ fnResult.done

\* the values used lie in their ranges
ValuesInRange ==
    /\ fnResult.limit \in 1..100
    /\ fnResult.offset >= 0
    /\ fnResult.days_range \in 1..365

\* C22: for any integer inputs the values used after validation satisfy
\* limit in [1,100], offset >= 0 and days_range in [1,365], and every input
\* is replaced by the nearest value of its range (itself when in range)
C22_ClampedToNearestBound ==
    Validated =>
        /\ ValuesInRange
        /\ fnResult.limit = Min(Max(fnCall.args.limit, 1), 100)
        /\ fnResult.offset = Max(fnCall.args.offset, 0)
        /\ fnResult.days_range = Min(Max(fnCall.args.days_range, 1), 365)

\* C22 as amended: the values used lie in their ranges; an input other than
\* 0 is replaced by the nearest value of its range, and a limit or
\* days_range of 0 is replaced by its default, 50 or 90
C22_ClampedExceptZeroDefaults ==
    Validated =>
        /\ ValuesInRange
        /\ fnResult.limit = IF fnCall.args.limit = 0 THEN 50
                            ELSE Min(Max(fnCall.args.limit, 1), 100)
        /\ fnResult.offset = Max(fnCall.args.offset, 0)
        /\ fnResult.days_range = IF fnCall.args.days_range = 0 THEN 90
                                 ELSE Min(Max(fnCall.args.days_range, 1), 365)

\* a limit above the range, a negative offset and a days_range of 0 validated
C22_Witness ==
    /\ Validated
    /\ fnCall.args.limit = 1000 /\ fnResult.limit = 100
    /\ fnCall.args.offset = -3 /\ fnResult.offset = 0
    /\ fnCall.args.days_range = 0 /\ fnResult.days_range = 90

-----------------------------------------------------------------------------
(* Properties of the customer list of the support center *)

\* the request issued last
LatestRequestId == nextReqId - 1

\* C23: after any sequence of category changes, searches and page changes,
\* once all responses have arrived the rows and the number of pages shown
\* are those of the request issued last, which is the one for the category,
\* query and page in effect
C23_LatestCustomerRequestIsRendered ==
    (/\ page = "support"
     /\ inFlight = {}
     /\ customerTable.kind \in {"rows", "empty"})
    => /\ customerTable.id = LatestRequestId
       /\ customerTable.offset = (customerListPage - 1) * customerListPageSize
       /\ customerListTotalPages
             = TotalPages(ServerCustomersIn(currentCategory, customerListQuery))

\* C25: isLoadingPage is true whenever a list request is in flight, so that
\* goToPage never starts a page load while another list request is
\* outstanding
C25_LoadingFlagCoversEveryRequest ==
    [][/\ (\E r \in inFlight' : r.kind = "customers") => isLoadingPage'
       /\ lastOp'.name = "goToPage" => inFlight = {}]_vars

-----------------------------------------------------------------------------
(* Properties of a search overtaken by a reload of the client list *)

\* C24: when the search box was cleared (or the list otherwise reloaded)
\* while a search request was in flight, the late search response is not
\* rendered over the reloaded list: once all responses have arrived with the
\* search box empty, the table shows the client list, not search results
C24_LateSearchNotRenderedOverList ==
    (/\ page = "retention"
     /\ inFlight = {}
     /\ searchInput = <<>>)
    => clientsTable.kind \notin {"searchRows", "searchEmpty"}

-----------------------------------------------------------------------------
(* Properties of a page change that fails *)

\* the number of the page the rows held in clients belong to
PageHeld == clients.offset \div pageSize + 1

\* C26: after a page-change request has failed, currentPage is the number of
\* the page whose rows are held in clients, so that a later Next or Previous
\* moves relative to the page that was displayed last
C26_FailedPageChangeKeepsPage ==
    [][(lastOp'.name = "listFailed" /\ clients.n > 0 /\ inFlight' = {})
          => currentPage' = PageHeld']_vars

\* C27: after a load-more request for the orders or the timeline fails, the
\* items loaded and the offset are unchanged, the in-progress flag is
\* cleared and the Load More control of that list is usable again: present,
\* enabled and answering clicks.
C27_FailedLoadMoreCanBeRetried ==
    [][/\ detailOp' = "moreOrdersFailed" =>
             /\ currentOrders' = currentOrders
             /\ ordersLoaded' = ordersLoaded
             /\ ~isLoadingMore'
             /\ loadMoreButtons'.orders = FreshButton(TRUE, TRUE)
       /\ detailOp' = "moreTimelineFailed" =>
             /\ currentTimeline' = currentTimeline
             /\ timelineLoaded' = timelineLoaded
             /\ ~isLoadingMore'
             /\ loadMoreButtons'.timeline = FreshButton(TRUE, TRUE)]_vars

\* the part of C27 that the code keeps: a failed load-more leaves the items
\* and the offset as they were and clears the in-progress flag
C27_FailedLoadMoreKeepsItems ==
    [][detailOp' \in {"moreOrdersFailed", "moreTimelineFailed"} =>
          /\ currentOrders' = currentOrders
          /\ ordersLoaded' = ordersLoaded
          /\ currentTimeline' = currentTimeline
          /\ timelineLoaded' = timelineLoaded
          /\ ~isLoadingMore']_vars

\* the positions of the server's list that the orders loaded hold
OrdersHeld == {currentOrders[i] : i \in 1..Len(currentOrders)}

\* C29: load-more for orders fetches contiguous batches that do not overlap:
\* at most one load-more request is in flight, each request for orders has
\* as offset the number of orders loaded, the orders loaded are exactly the
\* first ordersLoaded orders of the server's list, none twice and none
\* missing, and ordersHasMore is true exactly when the server has more.
C29_OrdersLoadedAreContiguous ==
    /\ Cardinality({r \in detailInFlight : r.kind # "detail"}) <= 1
    /\ \A r \in detailInFlight : r.kind = "orders" => r.offset = ordersLoaded
    /\ Len(currentOrders) = ordersLoaded
    /\ OrdersHeld = 1..ordersLoaded
    /\ currentCustomer => (ordersHasMore <=> ordersLoaded < detailServer.orders)

\* two batches were added to the first one, the last one shorter than a page
C29_Witness ==
    /\ detailOp = "moreOrdersLoaded"
    /\ ordersLoaded = 2 * ordersPageSize + 5
    /\ ~ordersHasMore

\* getPriorityLabel(level), the label of each level
LevelLabels ==
    [critical |-> "Critical", high |-> "High Priority", medium |-> "Medium", low |-> "Low"]

\* C28: for every priority level among critical, high, medium and low, the
\* text of the badge on the card of an at-risk client is the label of that
\* level: Critical, High Priority, Medium, Low.
C28_BadgeTextIsLabelOfLevel ==
    (/\ fnCall.name = "renderAtRiskClients"
     /\ fnResult.done
     /\ fnCall.level \in DOMAIN LevelLabels)
        => fnResult.text = LevelLabels[fnCall.level]

\* what the badge shows instead: "Low" whatever the level, on a card whose
\* class is that of the level
C28_BadgeTextIsAlwaysLow ==
    (fnCall.name = "renderAtRiskClients" /\ fnResult.done)
        => /\ fnResult.text = "Low"
           /\ fnCall.level # "" => fnResult.priorityClass = fnCall.level

\* C30: the calendar cache is coherent with its keys: every entry stored
\* under the key year-month holds the response of the request made for that
\* year and month, also when the user went to another month while the
\* request was in flight.
C30_CacheEntryHoldsMonthOfItsKey ==
    \A i \in DOMAIN calendarCache :
        calendarCache[i].key =
            CacheKey(calendarCache[i].data.year, calendarCache[i].data.month)

\* a response was stored while another month was selected: the user had gone
\* back to a month of the cache, which does not cancel the request
C30_Witness ==
    /\ calOp \in {"store", "evict"}
    /\ calendarCache # <<>>
    /\ calendarCache[Len(calendarCache)].key # CacheKey(calendarYear, calendarMonth)
    /\ calView.gridMonth = calendarCache[Len(calendarCache)].data

-----------------------------------------------------------------------------
CalTypeOK ==
    /\ calendarMonth \in 1..MonthsPerYear
    /\ Len(calendarCache) <= CalendarCacheLimit + 1
====
